---- MODULE Spec2Model ----
(***************************************************************************)
(* Windowed outlier detection over temperature sensor series:              *)
(* src/outlier/director.py (Director), src/outlier/sensors.py (Sensor,     *)
(* Temperature), src/sensor_stream.py (entry point).                       *)
(*                                                                         *)
(* The program is run with --no-plot (plotting is outside the engine).     *)
(* Temperatures are not computed: DBSCAN (sklearn) returns any label       *)
(* vector that it can return for some temperatures, or raises ValueError.  *)
(* All durations are scaled down together: the window, the timestep and    *)
(* the resampling period of 900 s keep their order.                        *)
(*                                                                         *)
(* Spec and FairSpec are the program. CalcSpec applies the calculations    *)
(* of a cycle to inputs of their own: __dynamic_epsilon and the DBSCAN     *)
(* calls of Director.__cluster and of src/main.py to integer feature       *)
(* matrices, and __update_outlier_triggers to the labels of a project      *)
(* large enough for two clusters of equal size.                            *)
(* BatchSpec and FairBatchSpec are the sliding-window loop of the batch    *)
(* script src/main.py, with DBSCAN's labels drawn as above.                *)
(***************************************************************************)
EXTENDS Integers, Sequences, FiniteSets, TLC

(* -------- bounds of the model ------------------------------------------ *)
\* --timestep: seconds between clusterings (args['timestep'])
Timestep == 2
\* --window: width of the clustering window in seconds (args['window'])
Window == 4
\* the period of the resampling axis, np.arange(tl, tr, 900), scaled down
\* with the window
ResampleStep == 2
\* the history covers the seconds 0..MaxTime; the program is started at
\* wall-clock second MaxTime
MaxTime == 6
\* one sensor misses up to MaxOutage consecutive reports of the history
MaxOutage == 3
\* the live stream is followed until wall-clock second MaxNow
MaxNow == 8
\* a live event's updateTime lags the wall clock by at most StreamLag seconds
StreamLag == 1
\* the entries of a feature matrix are the temperatures 0..MaxTemp
MaxTemp == 2
\* the tagger is also applied to the labels of a project of TieProject
\* sensors, the smallest in which two clusters can be equally large
TieProject == 4

(* -------- program constants -------------------------------------------- *)
\* prm.minimum_cluster_size
minimum_cluster_size == 2
\* run_stream(n_reconnects=5)
n_reconnects == 5
\* prm.threshold_modifier
threshold_modifier == 2
\* the factor written into dynamic_epsilon of src/main.py
main_modifier == 2
\* min_samples of sklearn's DBSCAN when the call does not pass it
sklearn_min_samples == 5

(* -------- devices ------------------------------------------------------ *)
\* device identifiers; a project lists the first n of them as labelled
\* temperature devices, n in ProjectSizes
project_devices == <<"s1", "s2", "s3">>
ProjectSizes == 2..Len(project_devices)
\* an identifier no device listing holds
UnknownId == "zz"

\* Director.__spawn_devices: one Temperature object per listed device, and
\* sensor_ids maps a device id to its index in self.temperatures
sensor_ids(n) == [d \in {project_devices[k] : k \in 1..n} |->
                    CHOOSE k \in 1..n : project_devices[k] = d]

\* Sensor.__init__: the lists a sensor object holds
NewSensor == [unixtime |-> <<>>, values |-> <<>>, anomaly |-> <<>>]

\* the attribute Director.__update_outlier_triggers writes
FlagAttribute == "outlier"

VARIABLES
  pc,             \* where the program is: "history", "connect", "listening", "done", "crashed"
  error,          \* the exception that ended the program, "" while it runs
  temperatures,   \* self.temperatures: one sensor record per device
  event_history,  \* self.event_history, sorted by updateTime
  i,              \* run_history: index of the next historic event (0-based)
  unix_now,       \* run_history: the simulated clock
  last_update,    \* self.last_update
  nth_reconnect,  \* run_stream: reconnect counter
  clock,          \* the wall clock time.time() last read
  failures,       \* run_stream: the connection failures since the last successful connection (observation only)
  cycles,         \* every call of __cluster so far: its caller, its ux_now and how it ended (observation only)
  step,           \* what the last step did (observation only)
  calc            \* a calculation of the engine applied to an input of its own: the input, then the result

vars == <<pc, error, temperatures, event_history, i, unix_now, last_update,
          nth_reconnect, clock, failures, cycles, step, calc>>


(* -------- events ------------------------------------------------------- *)
\* An event package: event['targetName'], and event['data']['temperature']
\* with its 'updateTime' and 'value' fields, either of which may be missing.
Event(id, hasTime, ux, hasValue, v) ==
  [targetName |-> id, hasTime |-> hasTime, updateTime |-> ux,
   hasValue |-> hasValue, value |-> v]

NoEvent == Event("", FALSE, 0, FALSE, 0)

(* -------- ingestion ---------------------------------------------------- *)
\* a variant that puts the new sample in front of the stored ones
Temperature_new_event_data_front(t, event) ==
  IF ~event.hasTime
    THEN [t |-> t, raised |-> "KeyError"]
    ELSE LET t1 == [t EXCEPT !.unixtime = <<event.updateTime>> \o @] IN
         IF ~event.hasValue
           THEN [t |-> t1, raised |-> "KeyError"]
           ELSE [t |-> [t1 EXCEPT !.values = <<event.value>> \o @,
                                  !.anomaly = <<0>> \o @],
                 raised |-> ""]

\* Temperature.new_event_data: the updateTime is read and appended first, then
\* the value is read and appended, then the flag. A missing field raises
\* KeyError at the point where it is read.
Temperature_new_event_data(t, event) ==
  IF ~event.hasTime
    THEN [t |-> t, raised |-> "KeyError"]
    ELSE LET t1 == [t EXCEPT !.unixtime = Append(@, event.updateTime)] IN
         IF ~event.hasValue
           THEN [t |-> t1, raised |-> "KeyError"]
           ELSE [t |-> [t1 EXCEPT !.values = Append(@, event.value),
                                  !.anomaly = Append(@, 0)],
                 raised |-> ""]

\* a variant that hands an event of an unlisted device to the first sensor
new_event_data_any(temps, event) ==
  LET ids == sensor_ids(Len(temps))
      k == IF event.targetName \in DOMAIN ids THEN ids[event.targetName] ELSE 1
      r == Temperature_new_event_data(temps[k], event)
  IN [temps |-> [temps EXCEPT ![k] = r.t],
      served |-> (r.raised = ""), raised |-> r.raised]

\* Director.__new_event_data: True when the event was served to a sensor
new_event_data(temps, event) ==
  IF event.targetName \in DOMAIN sensor_ids(Len(temps))
    THEN LET k == sensor_ids(Len(temps))[event.targetName]
             r == Temperature_new_event_data(temps[k], event)
         IN [temps |-> [temps EXCEPT ![k] = r.t],
             served |-> (r.raised = ""), raised |-> r.raised]
    ELSE [temps |-> temps, served |-> FALSE, raised |-> ""]

(* -------- elapsed-time gate -------------------------------------------- *)
\* a variant that fires as soon as a full timestep has passed
check_timestep_eager(lu, unixtime) ==
  IF lu < 0
    THEN [last_update |-> unixtime, fire |-> FALSE, gate |-> "first"]
    ELSE IF unixtime - lu >= Timestep
      THEN [last_update |-> unixtime, fire |-> TRUE, gate |-> "fire"]
      ELSE [last_update |-> lu, fire |-> FALSE, gate |-> "wait"]

\* Director.__check_timestep
check_timestep(lu, unixtime) ==
  IF lu < 0
    THEN [last_update |-> unixtime, fire |-> FALSE, gate |-> "first"]
    ELSE IF unixtime - lu > Timestep
      THEN [last_update |-> unixtime, fire |-> TRUE, gate |-> "fire"]
      ELSE [last_update |-> lu, fire |-> FALSE, gate |-> "wait"]

(* -------- window extraction -------------------------------------------- *)
\* x[(x >= tl) & (x <= tr)]
SliceX(t, tl, tr) == SelectSeq(t.unixtime, LAMBDA u : u >= tl /\ u <= tr)

\* np.array(t.values)[mask]: the mask has the length of t.unixtime, and
\* numpy raises IndexError when the indexed array has another length
MaskMismatch(t) == Len(t.values) # Len(t.unixtime)

\* "skip if missing data"
ThinSlice(t, tl, tr) == Len(SliceX(t, tl, tr)) < 2

\* the first sensor, in the order of self.temperatures, at which the slicing
\* loop stops (0: it runs through)
SliceStop(temps, tl, tr) ==
  LET S == {k \in DOMAIN temps : MaskMismatch(temps[k]) \/ ThinSlice(temps[k], tl, tr)}
  IN IF S = {} THEN 0 ELSE CHOOSE k \in S : \A j \in S : k <= j

\* "set interval limits to inner timestamps for series": the loop over xx
RECURSIVE Tighten(_, _, _, _)
Tighten(xx, k, tl, tr) ==
  IF k > Len(xx) THEN [tl |-> tl, tr |-> tr]
  ELSE LET x == xx[k] IN
       Tighten(xx, k + 1,
               IF x[1] > tl THEN x[1] ELSE tl,
               IF x[Len(x)] < tr THEN x[Len(x)] ELSE tr)

\* len(np.arange(tl, tr, 900))
AxisLen(tl, tr) == IF tr <= tl THEN 0 ELSE ((tr - tl - 1) \div ResampleStep) + 1

\* a variant whose last point lies at or beyond tr
Axis_overshoot(tl, tr) ==
  [k \in 1..(AxisLen(tl, tr) + 1) |-> tl + ResampleStep * (k - 1)]

\* np.arange(tl, tr, 900)
Axis(tl, tr) == [k \in 1..AxisLen(tl, tr) |-> tl + ResampleStep * (k - 1)]

(* -------- clustering primitive ----------------------------------------- *)
Count(labels, c) == Cardinality({k \in DOMAIN labels : labels[k] = c})

HasCluster(labels) == \E k \in DOMAIN labels : labels[k] >= 0

\* The labels of sklearn's DBSCAN(min_samples = m).fit for n points: label
\* -1 is noise, clusters are numbered from 0 in the order of their first
\* member, and with min_samples = 2 every cluster has at least 2 members.
DBSCANLabels(n) ==
  {L \in [1..n -> -1..(n - 1)] :
     \A k \in 1..n : L[k] >= 0 =>
        /\ Count(L, L[k]) >= minimum_cluster_size
        /\ \A c \in 0..(L[k] - 1) : \E j \in 1..(k - 1) : L[j] = c}

\* DBSCAN(eps = __dynamic_epsilon(rey) * threshold_modifier, ...).fit(rey)
\* for n rows of cols columns. It raises ValueError (written <<>>) for a
\* matrix without columns, and for eps = 0, which is the case when the rows
\* are equal. Otherwise it returns labels. The radius is twice the median of
\* the rows' distances to the median row: of three or more rows the two
\* nearest to the median row lie within the radius of each other, so some
\* row is clustered; for two rows the radius is the distance between them
\* up to floating-point rounding, which with two or more columns may fall
\* below that distance and leave both rows noise.
DBSCANOutcomes(n, cols) ==
  IF cols = 0 THEN {<<>>}
  ELSE {<<>>} \cup {L \in DBSCANLabels(n) : HasCluster(L) \/ (n = 2 /\ cols >= 2)}

(* -------- anomaly tagging ---------------------------------------------- *)
\* np.argmax(np.bincount(labels[labels >= 0])): the smallest label among
\* those that occur most often; argmax of an empty array raises ValueError
MajorityLabel(labels) ==
  LET C == {labels[k] : k \in {j \in DOMAIN labels : labels[j] >= 0}}
  IN CHOOSE c \in C : /\ \A d \in C : Count(labels, d) <= Count(labels, c)
                      /\ \A d \in C : Count(labels, d) = Count(labels, c) => c <= d

\* "outlier if sensor label is not in main group"
IsOutlier(labels, k) == labels[k] # MajorityLabel(labels) \/ labels[k] < 0

\* the indices the loop "while ix >= 0 and t.unixtime[ix] > tl" visits,
\* starting at len(t.values) - 1 and walking down
Visited(t, tl) ==
  {ix \in 1..Len(t.values) : \A j \in ix..Len(t.values) : t.unixtime[j] > tl}

\* t.outlier[ix] = 1 for every visited ix: the write goes to the attribute
\* named FlagAttribute, and raises AttributeError when the sensor object has
\* no such attribute
SetTriggers(t, tl) ==
  [t EXCEPT ![FlagAttribute] =
     [ix \in DOMAIN @ |-> IF ix \in Visited(t, tl) THEN 1 ELSE @[ix]]]

\* a variant that writes the mark into the list of values
update_outlier_triggers_values(temps, labels, tl) ==
  IF ~HasCluster(labels)
    THEN [temps |-> temps, raised |-> "ValueError"]
  ELSE [temps |-> [k \in DOMAIN temps |->
                     IF IsOutlier(labels, k)
                       THEN [temps[k] EXCEPT !.values =
                               [ix \in DOMAIN @ |->
                                  IF ix \in Visited(temps[k], tl)
                                    THEN 1 ELSE @[ix]]]
                       ELSE temps[k]],
        raised |-> ""]

\* a variant that inverts the flag of every visited sample of an outlier
update_outlier_triggers_toggle(temps, labels, tl) ==
  IF ~HasCluster(labels)
    THEN [temps |-> temps, raised |-> "ValueError"]
  ELSE [temps |-> [k \in DOMAIN temps |->
                     IF IsOutlier(labels, k)
                       THEN [temps[k] EXCEPT !.anomaly =
                               [ix \in DOMAIN @ |->
                                  IF ix \in Visited(temps[k], tl)
                                    THEN 1 - @[ix] ELSE @[ix]]]
                       ELSE temps[k]],
        raised |-> ""]

\* Director.__update_outlier_triggers
update_outlier_triggers(temps, labels, tl) ==
  IF ~HasCluster(labels)
    THEN [temps |-> temps, raised |-> "ValueError"]
  ELSE IF \E k \in DOMAIN temps : /\ IsOutlier(labels, k)
                                  /\ Visited(temps[k], tl) # {}
                                  /\ FlagAttribute \notin DOMAIN temps[k]
    THEN [temps |-> temps, raised |-> "AttributeError"]
  ELSE [temps |-> [k \in DOMAIN temps |->
                     IF IsOutlier(labels, k) /\ Visited(temps[k], tl) # {}
                       THEN SetTriggers(temps[k], tl) ELSE temps[k]],
        raised |-> ""]

(* -------- detection cycle ---------------------------------------------- *)
\* what one call of Director.__cluster did: how it ended ("nodata",
\* "warmup", "thin", "slice_error", "dbscan_error", "tagger_error", "tagged"),
\* the exception it raised, the requested left flank, the flanks after
\* __isolate_recent_window with the axis np.arange makes of them, the
\* labels, the tl handed to
\* __update_outlier_triggers (0 when it is not called), and the sensors
\* before and after
Cycle(called, now, outcome, raised, reqtl, tl, tr, labels, bound, pre, post) ==
  [called |-> called, ux_now |-> now, outcome |-> outcome, raised |-> raised,
   reqtl |-> reqtl, tl |-> tl, tr |-> tr, cols |-> AxisLen(tl, tr),
   rex |-> Axis(tl, tr),
   labels |-> labels, bound |-> bound, pre |-> pre, temps |-> post]

NoCycle(temps) == Cycle(FALSE, 0, "", "", 0, 0, 0, <<>>, 0, temps, temps)

\* "exit if data is missing"
MissingData(temps) == \E k \in DOMAIN temps : Len(temps[k].unixtime) < 1

\* a variant that takes the earliest of the sensors' first timestamps
first_event_ux_min(temps) ==
  CHOOSE u \in {temps[k].unixtime[1] : k \in DOMAIN temps} :
    \A k \in DOMAIN temps : u <= temps[k].unixtime[1]

\* max([t.unixtime[0] for t in self.temperatures])
first_event_ux(temps) ==
  CHOOSE u \in {temps[k].unixtime[1] : k \in DOMAIN temps} :
    \A k \in DOMAIN temps : temps[k].unixtime[1] <= u

\* a variant that moves the left flank only
TightWindow_left(temps, tl, tr) ==
  [tl |-> Tighten([k \in DOMAIN temps |-> SliceX(temps[k], tl, tr)], 1, tl, tr).tl,
   tr |-> tr]

\* the window __isolate_recent_window ends with, for slices that all hold
\* at least two samples
TightWindow(temps, tl, tr) ==
  Tighten([k \in DOMAIN temps |-> SliceX(temps[k], tl, tr)], 1, tl, tr)

\* the cycle gets as far as the DBSCAN call
ReachesDBSCAN(temps, ux_now) ==
  /\ ~MissingData(temps)
  /\ ux_now - first_event_ux(temps) >= Window
  /\ SliceStop(temps, ux_now - Window, ux_now) = 0

\* Director.__cluster with Director.__isolate_recent_window; dbscan is what
\* the DBSCAN call does (labels, or <<>> when it raises)
cluster(temps, ux_now, dbscan) ==
  LET tl == ux_now - Window
      tr == ux_now
      stop == SliceStop(temps, tl, tr)
      w == TightWindow(temps, tl, tr)
  IN
  IF MissingData(temps)
    THEN Cycle(TRUE, ux_now, "nodata", "", tl, tl, tr, <<>>, 0, temps, temps)
  ELSE IF ux_now - first_event_ux(temps) < Window
    THEN Cycle(TRUE, ux_now, "warmup", "", tl, tl, tr, <<>>, 0, temps, temps)
  ELSE IF stop # 0 /\ MaskMismatch(temps[stop])
    THEN Cycle(TRUE, ux_now, "slice_error", "IndexError", tl, tl, tr, <<>>, 0, temps, temps)
  ELSE IF stop # 0
    THEN Cycle(TRUE, ux_now, "thin", "", tl, tl, tr, <<>>, 0, temps, temps)
  ELSE IF dbscan = <<>>
    THEN Cycle(TRUE, ux_now, "dbscan_error", "ValueError", tl, w.tl, w.tr, <<>>, 0, temps, temps)
  ELSE LET bound == tl
           u == update_outlier_triggers(temps, dbscan, bound)
       IN Cycle(TRUE, ux_now, IF u.raised = "" THEN "tagged" ELSE "tagger_error",
                u.raised, tl, w.tl, w.tr, dbscan, bound, temps, u.temps)

\* the outcomes of the DBSCAN call of a cycle (one dummy when it is not reached)
DBSCANChoices(temps, ux_now) ==
  IF ReachesDBSCAN(temps, ux_now)
    THEN LET w == TightWindow(temps, ux_now - Window, ux_now)
         IN DBSCANOutcomes(Len(temps), AxisLen(w.tl, w.tr))
    ELSE {<<>>}

(* -------- the event history -------------------------------------------- *)
\* the temperature a historic event of sensor k carries
HistoricValue(k, ux) == 20 + k

\* Director.__fetch_event_history: the events of every device, then
\* "self.event_history.sort(key=hlp.json_sort_key)". The sort is stable, so
\* events of equal updateTime stay in the order of the device listing.
RECURSIVE SortedHistory(_)
SortedHistory(E) ==
  IF E = {} THEN <<>>
  ELSE LET e == CHOOSE a \in E : \A b \in E :
                  a[1] < b[1] \/ (a[1] = b[1] /\ a[2] <= b[2])
       IN <<Event(project_devices[e[2]], TRUE, e[1], TRUE, HistoricValue(e[2], e[1]))>>
            \o SortedHistory(E \ {e})

\* the reports missing from a history: none, or those of one sensor during
\* an outage of up to MaxOutage consecutive seconds
Outages(n) ==
  {{}} \cup
  {{<<u, k>> : u \in a..(a + len - 1)} :
     k \in 1..n, a \in 0..MaxTime, len \in 1..MaxOutage}

\* the event histories the model replays for a project of n sensors: every
\* sensor reports once a second from second 0 to second MaxTime, except
\* during the outage
Histories(n) ==
  {SortedHistory({g \in (0..MaxTime) \X (1..n) : g \notin M}) : M \in Outages(n)}

\* event_history_unixtime[j] for the 0-based index j
event_history_unixtime(j) == event_history[j + 1].updateTime
n_events == Len(event_history)
unix_end == event_history_unixtime(n_events - 1)

(* -------- observation of the last step --------------------------------- *)
\* kind: "init", "tick", "histend", "connect", "event", "lost", "closed";
\* gate: what __check_timestep did ("" when it was not called); before: the
\* sensors before the step
Step(kind, event, served, now, gate, raised, before, cyc) ==
  [kind |-> kind, event |-> event, served |-> served, now |-> now,
   gate |-> gate, raised |-> raised, before |-> before, cyc |-> cyc]

(* -------- epsilon and the arguments of DBSCAN -------------------------- *)
\* A feature matrix is a sequence of rows, one per sensor, of integer
\* temperatures. Distances are square roots, so the model carries their
\* squares: the column medians doubled, the squared distances times 4, and
\* an epsilon as [a, b, times], which stands for
\* times * (sqrt(a) + sqrt(b)) / 4.
Sorted(s) == SortSeq(s, LAMBDA u, v : u < v)

\* twice np.median(s): the middle element of the sorted sequence, or the
\* mean of the two middle elements
Median2(s) ==
  LET t == Sorted(s)
      n == Len(s)
  IN IF n % 2 = 1 THEN 2 * t[(n + 1) \div 2] ELSE t[n \div 2] + t[(n \div 2) + 1]

\* m = np.median(x, axis=0), doubled
ColumnMedian2(x) ==
  [c \in 1..Len(x[1]) |-> Median2([k \in 1..Len(x) |-> x[k][c]])]

\* "for i in range(len(y)): d += (y[i]-m[i])**2", times 4
RECURSIVE SquaredDistance4(_, _, _)
SquaredDistance4(y, m2, c) ==
  IF c > Len(y) THEN 0
  ELSE (2 * y[c] - m2[c]) * (2 * y[c] - m2[c]) + SquaredDistance4(y, m2, c + 1)

\* mm: the distance of every row to the median row (squared, times 4)
RowDistances4(x) ==
  LET m2 == ColumnMedian2(x)
  IN [k \in 1..Len(x) |-> SquaredDistance4(x[k], m2, 1)]

\* a variant that returns the largest of the distances
dynamic_epsilon_max(x) ==
  LET t == Sorted(RowDistances4(x))
  IN [a |-> t[Len(t)], b |-> t[Len(t)], times |-> 1]

\* Director.__dynamic_epsilon: np.median(mm); the square root is monotonic,
\* so the middle distances are those of the middle squares
dynamic_epsilon(x) ==
  LET t == Sorted(RowDistances4(x))
      n == Len(t)
  IN IF n % 2 = 1
       THEN [a |-> t[(n + 1) \div 2], b |-> t[(n + 1) \div 2], times |-> 1]
       ELSE [a |-> t[n \div 2], b |-> t[(n \div 2) + 1], times |-> 1]

\* dynamic_epsilon of src/main.py: "return float(np.median(mm)) * 2"
main_dynamic_epsilon(x) ==
  [dynamic_epsilon(x) EXCEPT !.times = @ * main_modifier]

\* the arguments of the DBSCAN call of Director.__cluster
Director_DBSCAN(x) ==
  [eps |-> [dynamic_epsilon(x) EXCEPT !.times = @ * threshold_modifier],
   min_samples |-> minimum_cluster_size]

\* the arguments of the DBSCAN call of src/main.py:
\* DBSCAN(eps=dynamic_epsilon(window_data)), min_samples left to sklearn
main_DBSCAN(x) ==
  [eps |-> main_dynamic_epsilon(x), min_samples |-> sklearn_min_samples]

\* the feature matrices the calculations are applied to: one row per sensor
\* of a project, one column per point of a resampling axis
MaxCols == AxisLen(0, Window)
FeatureMatrices ==
  UNION {[1..n -> [1..cols -> 0..MaxTemp]] : n \in ProjectSizes, cols \in 0..MaxCols}

\* the stores and labels the tagger is applied to: TieProject sensors with
\* one sample per second of a window, and the labels DBSCAN can give them
TieStore ==
  [k \in 1..TieProject |->
     [unixtime |-> [j \in 1..Window |-> j], values |-> [j \in 1..Window |-> 20],
      anomaly |-> [j \in 1..Window |-> 0]]]
TieLabels == {L \in DBSCANLabels(TieProject) : HasCluster(L)}

\* calc while the program itself runs
NoCalc == [fn |-> "none"]

(* -------- Init --------------------------------------------------------- *)
\* Director.__init__ and the start of run_history: with --starttime the
\* history is fetched and replayed, without it run_history returns at once
Init ==
  /\ \E n \in ProjectSizes :
       /\ temperatures = [k \in 1..n |-> NewSensor]
       /\ \/ /\ event_history \in Histories(n)
             /\ pc = "history"
             /\ unix_now = event_history[1].updateTime
          \/ /\ event_history = <<>>
             /\ pc = "connect"
             /\ unix_now = 0
  /\ last_update = -1
  /\ error = ""
  /\ nth_reconnect = 0
  /\ clock = MaxTime
  /\ failures = 0
  /\ cycles = <<>>
  /\ i = 0
  /\ calc = NoCalc
  /\ step = Step("init", NoEvent, FALSE, 0, "", "", temperatures, NoCycle(temperatures))

(* -------- run_history -------------------------------------------------- *)
\* a variant that leaves the index i where it was before the tick
RECURSIVE CatchUp_rewind(_, _, _)
CatchUp_rewind(temps, j, now) ==
  IF j < n_events /\ event_history_unixtime(j) < now
    THEN LET r == new_event_data(temps, event_history[j + 1]) IN
         IF r.raised # ""
           THEN [temps |-> r.temps, i |-> j, raised |-> r.raised]
           ELSE [CatchUp_rewind(r.temps, j + 1, now) EXCEPT !.i = j]
    ELSE [temps |-> temps, i |-> j, raised |-> ""]

\* "catch up with events that have occured": serves event_history[j] while
\* its unixtime is below unix_now; an exception ends the loop
RECURSIVE CatchUp(_, _, _)
CatchUp(temps, j, now) ==
  IF j < n_events /\ event_history_unixtime(j) < now
    THEN LET r == new_event_data(temps, event_history[j + 1]) IN
         IF r.raised # ""
           THEN [temps |-> r.temps, i |-> j, raised |-> r.raised]
           ELSE CatchUp(r.temps, j + 1, now)
    ELSE [temps |-> temps, i |-> j, raised |-> ""]

\* one pass of the loop "while unix_now <= unix_end"
HistoryTick ==
  /\ pc = "history"
  /\ unix_now <= unix_end
  /\ \E c \in {CatchUp(temperatures, i, unix_now)} :
     \E g \in {check_timestep(last_update, unix_now)} :
     IF c.raised # ""
       THEN /\ pc' = "crashed"
            /\ error' = c.raised
            /\ temperatures' = c.temps
            /\ i' = c.i
            /\ step' = Step("tick", NoEvent, FALSE, unix_now, "", c.raised,
                            temperatures, NoCycle(c.temps))
            /\ UNCHANGED <<unix_now, last_update, cycles>>
       ELSE /\ i' = c.i
            /\ last_update' = g.last_update
            /\ IF g.fire
                 THEN \E dbscan \in DBSCANChoices(c.temps, unix_now) :
                        LET cyc == cluster(c.temps, unix_now, dbscan) IN
                        /\ temperatures' = cyc.temps
                        /\ cycles' = Append(cycles, [by |-> "run_history",
                                                     ux_now |-> unix_now,
                                                     outcome |-> cyc.outcome])
                        /\ step' = Step("tick", NoEvent, FALSE, unix_now, g.gate,
                                        cyc.raised, temperatures, cyc)
                        /\ IF cyc.raised # ""
                             THEN /\ pc' = "crashed"
                                  /\ error' = cyc.raised
                                  /\ UNCHANGED unix_now
                             ELSE /\ unix_now' = unix_now + 1
                                  /\ UNCHANGED <<pc, error>>
                 ELSE /\ temperatures' = c.temps
                      /\ step' = Step("tick", NoEvent, FALSE, unix_now, g.gate, "",
                                      temperatures, NoCycle(c.temps))
                      /\ unix_now' = unix_now + 1
                      /\ UNCHANGED <<pc, error, cycles>>
  /\ UNCHANGED <<event_history, nth_reconnect, clock, failures, calc>>

\* the loop ends; run_history returns and run_stream starts with
\* nth_reconnect = 0
HistoryEnd ==
  /\ pc = "history"
  /\ unix_now > unix_end
  /\ pc' = "connect"
  /\ nth_reconnect' = 0
  /\ step' = Step("histend", NoEvent, FALSE, unix_now, "", "", temperatures,
                  NoCycle(temperatures))
  /\ UNCHANGED <<error, temperatures, event_history, i, unix_now, last_update,
                 clock, failures, cycles, calc>>

(* -------- run_stream --------------------------------------------------- *)
\* the temperature a live event carries
LiveValue(id) == 25

\* the event packages the stream delivers at wall-clock time now: complete
\* ones, ones without 'value', ones without 'updateTime', of any device (in
\* the sensor list or not)
LiveEvents(now) ==
  LET ids == {project_devices[k] : k \in DOMAIN project_devices}
      uxs == {u \in (now - StreamLag)..now : u >= 0}
  IN {Event(d, TRUE, u, TRUE, LiveValue(d)) : d \in ids, u \in uxs}
       \cup {Event(d, TRUE, now, FALSE, 0) : d \in ids}
       \cup {Event(d, FALSE, 0, FALSE, 0) : d \in ids}
       \cup {Event(UnknownId, TRUE, now, TRUE, LiveValue(UnknownId))}

\* the model follows at most MaxFailures connection failures in a row
MaxFailures == n_reconnects

\* "while nth_reconnect < n_reconnects: try: nth_reconnect = 0", then
\* requests.get connects or raises ConnectionError (nth_reconnect += 1, sleep)
StreamConnect ==
  /\ pc = "connect"
  /\ IF nth_reconnect < n_reconnects
       THEN \E ok \in {b \in BOOLEAN : b \/ failures < MaxFailures} :
              /\ pc' = IF ok THEN "listening" ELSE "connect"
              /\ nth_reconnect' = IF ok THEN 0 ELSE 0 + 1
              /\ failures' = IF ok THEN 0 ELSE failures + 1
       ELSE /\ pc' = "done"
            /\ UNCHANGED <<nth_reconnect, failures>>
  /\ step' = Step("connect", NoEvent, FALSE, clock, "", "", temperatures,
                  NoCycle(temperatures))
  /\ UNCHANGED <<error, temperatures, event_history, i, unix_now, last_update,
                 clock, cycles, calc>>

\* one pass of "for event in client.events()", at a wall-clock second after
\* the one of the event before: the event is served, and a
\* served event is followed by self.__cluster(time.time()). KeyError is
\* caught by run_stream (back to the while loop); any other exception of the
\* body ends the program
StreamEvent ==
  /\ pc = "listening"
  /\ \E now \in (clock + 1)..MaxNow : \E event \in LiveEvents(now) :
       LET r == new_event_data(temperatures, event) IN
       /\ clock' = now
       /\ IF r.raised # ""
            THEN /\ pc' = "connect"
                 /\ temperatures' = r.temps
                 /\ step' = Step("event", event, FALSE, now, "", r.raised,
                                 temperatures, NoCycle(r.temps))
                 /\ UNCHANGED <<error, cycles>>
          ELSE IF r.served
            THEN \E dbscan \in DBSCANChoices(r.temps, now) :
                   LET cyc == cluster(r.temps, now, dbscan) IN
                   /\ temperatures' = cyc.temps
                   /\ cycles' = Append(cycles, [by |-> "run_stream", ux_now |-> now,
                                                outcome |-> cyc.outcome])
                   /\ step' = Step("event", event, TRUE, now, "", cyc.raised,
                                   temperatures, cyc)
                   /\ IF cyc.raised # ""
                        THEN pc' = "crashed" /\ error' = cyc.raised
                        ELSE UNCHANGED <<pc, error>>
            ELSE /\ temperatures' = r.temps
                 /\ step' = Step("event", event, FALSE, now, "", "", temperatures,
                                 NoCycle(r.temps))
                 /\ UNCHANGED <<pc, error, cycles>>
  /\ UNCHANGED <<event_history, i, unix_now, last_update, nth_reconnect, failures,
                 calc>>

\* client.events() raises ConnectionError or ChunkedEncodingError
StreamLost ==
  /\ pc = "listening"
  /\ pc' = "connect"
  /\ nth_reconnect' = nth_reconnect + 1
  /\ failures' = failures + 1
  /\ step' = Step("lost", NoEvent, FALSE, clock, "", "", temperatures,
                  NoCycle(temperatures))
  /\ UNCHANGED <<error, temperatures, event_history, i, unix_now, last_update,
                 clock, cycles, calc>>

\* client.events() ends: the for loop is left without an exception
StreamClosed ==
  /\ pc = "listening"
  /\ pc' = "connect"
  /\ step' = Step("closed", NoEvent, FALSE, clock, "", "", temperatures,
                  NoCycle(temperatures))
  /\ UNCHANGED <<error, temperatures, event_history, i, unix_now, last_update,
                 nth_reconnect, clock, failures, cycles, calc>>

Next ==
  \/ HistoryTick
  \/ HistoryEnd
  \/ StreamConnect
  \/ StreamEvent
  \/ StreamLost
  \/ StreamClosed

Spec == Init /\ [][Next]_vars

\* run_history is a sequential loop: while it has a tick to make or its end
\* to reach, it does so
FairSpec == Spec /\ WF_vars(HistoryTick) /\ WF_vars(HistoryEnd)

(* -------- the calculations on inputs of their own ---------------------- *)
\* the program's variables while a calculation is checked by itself
Idle ==
  /\ pc = "calc"
  /\ error = ""
  /\ temperatures = <<>>
  /\ event_history = <<>>
  /\ i = 0
  /\ unix_now = 0
  /\ last_update = -1
  /\ nth_reconnect = 0
  /\ clock = 0
  /\ failures = 0
  /\ cycles = <<>>
  /\ step = Step("init", NoEvent, FALSE, 0, "", "", <<>>, NoCycle(<<>>))

CalcInit ==
  /\ Idle
  /\ \/ \E x \in FeatureMatrices : calc = [fn |-> "matrix", x |-> x]
     \/ \E L \in TieLabels : \E tl \in 0..Window :
          calc = [fn |-> "labels", labels |-> L, tl |-> tl, temps |-> TieStore]

\* the DBSCAN call of Director.__cluster on the matrix
DirectorCall ==
  /\ calc.fn = "matrix"
  /\ calc' = [fn |-> "Director.__cluster", x |-> calc.x, dbscan |-> Director_DBSCAN(calc.x)]
  /\ UNCHANGED <<pc, error, temperatures, event_history, i, unix_now, last_update,
                 nth_reconnect, clock, failures, cycles, step>>

\* the DBSCAN call of src/main.py on the matrix
MainCall ==
  /\ calc.fn = "matrix"
  /\ calc' = [fn |-> "main", x |-> calc.x, dbscan |-> main_DBSCAN(calc.x)]
  /\ UNCHANGED <<pc, error, temperatures, event_history, i, unix_now, last_update,
                 nth_reconnect, clock, failures, cycles, step>>

\* Director.__update_outlier_triggers(labels, tl) on the store
TaggerCall ==
  /\ calc.fn = "labels"
  /\ calc' = [fn |-> "Director.__update_outlier_triggers", labels |-> calc.labels,
              tl |-> calc.tl, temps |-> calc.temps,
              out |-> update_outlier_triggers(calc.temps, calc.labels, calc.tl)]
  /\ UNCHANGED <<pc, error, temperatures, event_history, i, unix_now, last_update,
                 nth_reconnect, clock, failures, cycles, step>>

CalcNext == DirectorCall \/ MainCall \/ TaggerCall

CalcSpec == CalcInit /\ [][CalcNext]_vars

(* -------- the sliding-window loop of src/main.py ----------------------- *)
\* FS, the resample rate of src/main.py: 900 s, as the period of the
\* Director's resampling axis
FS == ResampleStep

\* the --timestep and --window arguments the script is run with, in seconds
MainTimesteps == 1..Window
MainWindows == 1..Window
\* the numbers of columns of the resampled matrix events
MainColumns == 1..MaxTime
\* its number of rows (sensors): enough for DBSCAN's default min_samples to
\* find a cluster and leave a sensor out of it
MainRows == sklearn_min_samples + 1

\* the labels DBSCAN(eps).fit(window_data) can return for n rows with the
\* default min_samples: a cluster has at least sklearn_min_samples members
main_DBSCANLabels(n) ==
  {L \in [1..n -> -1..((n \div sklearn_min_samples) - 1)] :
     \A k \in 1..n : L[k] >= 0 =>
        /\ Count(L, L[k]) >= sklearn_min_samples
        /\ \A c \in 0..(L[k] - 1) : \E j \in 1..(k - 1) : L[j] = c}

\* what the DBSCAN call of a pass does: it raises ValueError (written <<>>)
\* for a window without columns and for eps = 0, else it returns labels
main_DBSCANOutcomes(n, window_samples) ==
  IF window_samples = 0 THEN {<<>>} ELSE {<<>>} \cup main_DBSCANLabels(n)

\* update_labels of src/main.py (ii, jj are its i, j):
\* labels_matrix[new_labels != imax, i:j] = 1
\* when the labels are not all the same; columns are counted from 0 and the
\* slice i:j ends at the last column
update_labels(labels_matrix, new_labels, ii, jj) ==
  IF Cardinality({new_labels[k] : k \in DOMAIN new_labels}) > 1
    THEN LET imax == MajorityLabel(new_labels)
         IN [r \in DOMAIN labels_matrix |->
               [c \in DOMAIN labels_matrix[r] |->
                  IF new_labels[r] # imax /\ c >= ii /\ c < jj
                    THEN 1 ELSE labels_matrix[r][c]]]
    ELSE labels_matrix

\* the state of the script: where it is ("loop", "done", "crashed"), i,
\* window_samples, timestep_index, the number of columns of events,
\* events_labels, and of the last pass the column range that was clustered,
\* the range handed to update_labels and the labels
MainState(at, ix, ws, tsi, cols, marks, clustered, updated, labels) ==
  [fn |-> "main loop", pc |-> at, i |-> ix, window_samples |-> ws,
   timestep_index |-> tsi, n_cols |-> cols, events_labels |-> marks,
   clustered |-> clustered, updated |-> updated, labels |-> labels]

\* "events_labels = np.zeros(events.shape); i = 0;
\*  window_samples = args.window // FS; timestep_index = args.timestep // FS"
BatchInit ==
  /\ Idle
  /\ \E timestep \in MainTimesteps : \E window \in MainWindows :
     \E cols \in MainColumns :
       calc = MainState("loop", 0, window \div FS, timestep \div FS, cols,
                        [r \in 1..MainRows |-> [c \in 0..(cols - 1) |-> 0]],
                        <<0, 0>>, <<0, 0>>, <<>>)

\* one pass of "while i + window_samples < events.shape[1]"
MainPass ==
  /\ calc.fn = "main loop"
  /\ calc.pc = "loop"
  /\ calc.i + calc.window_samples < calc.n_cols
  /\ \E dbscan \in main_DBSCANOutcomes(MainRows, calc.window_samples) :
       LET clustered == <<calc.i, calc.i + calc.window_samples>>
           i2 == calc.i + calc.timestep_index
       IN IF dbscan = <<>>
            THEN calc' = [calc EXCEPT !.pc = "crashed", !.clustered = clustered,
                                      !.updated = <<0, 0>>, !.labels = <<>>]
            ELSE calc' = [calc EXCEPT
                            !.i = i2,
                            !.events_labels =
                               update_labels(@, dbscan, i2, i2 + calc.window_samples),
                            !.clustered = clustered,
                            !.updated = <<i2, i2 + calc.window_samples>>,
                            !.labels = dbscan]
  /\ UNCHANGED <<pc, error, temperatures, event_history, i, unix_now, last_update,
                 nth_reconnect, clock, failures, cycles, step>>

\* the loop condition fails: the script goes on to plot
MainEnd ==
  /\ calc.fn = "main loop"
  /\ calc.pc = "loop"
  /\ ~(calc.i + calc.window_samples < calc.n_cols)
  /\ calc' = [calc EXCEPT !.pc = "done"]
  /\ UNCHANGED <<pc, error, temperatures, event_history, i, unix_now, last_update,
                 nth_reconnect, clock, failures, cycles, step>>

BatchNext == MainPass \/ MainEnd

BatchSpec == BatchInit /\ [][BatchNext]_vars

\* the script is a sequential loop
FairBatchSpec == BatchSpec /\ WF_vars(MainPass) /\ WF_vars(MainEnd)

(* ======================================================================= *)
(* Properties                                                              *)
(* ======================================================================= *)
SetMax(S) == CHOOSE a \in S : \A b \in S : b <= a
SetMin(S) == CHOOSE a \in S : \A b \in S : a <= b

\* the indices of the samples of sensor record t with tl <= timestamp <= tr
SamplesIn(t, tl, tr) ==
  {ix \in 1..Len(t.unixtime) : t.unixtime[ix] >= tl /\ t.unixtime[ix] <= tr}

\* the last step was a detection cycle that got as far as calling DBSCAN
ClusteringInvoked ==
  step.cyc.called /\ step.cyc.outcome \in {"dbscan_error", "tagger_error", "tagged"}

(* -------- C2 ----------------------------------------------------------- *)
\* C2: after a detection cycle whose labels hold a non-negative label, every
\* sensor whose label is noise or differs from the majority label has the
\* flag of each of its samples inside the tightened window set, and every
\* sensor with the majority label is exactly as it was before the cycle.
C2_ExactTagging ==
  (step.cyc.called /\ HasCluster(step.cyc.labels)) =>
    \A k \in DOMAIN temperatures :
      IF IsOutlier(step.cyc.labels, k)
        THEN \A ix \in 1..Len(step.cyc.pre[k].unixtime) :
               (/\ step.cyc.pre[k].unixtime[ix] > step.cyc.tl
                /\ step.cyc.pre[k].unixtime[ix] <= step.cyc.tr)
                 => temperatures[k].anomaly[ix] = 1
        ELSE temperatures[k] = step.cyc.pre[k]

(* -------- C3 ----------------------------------------------------------- *)
\* C3: in every pass of the replay loop that checks the gate, the first check
\* (last_update < 0) records now and does not trigger; an armed check
\* triggers exactly when now - last_update > Timestep and records now only
\* then; a detection cycle is started exactly when the gate triggers, and at
\* least Timestep seconds of now after every earlier cycle of the replay.
C3_GateStep ==
  (step'.kind = "tick" /\ step'.gate # "") =>
    /\ step'.now = unix_now
    /\ IF last_update < 0
         THEN step'.gate = "first" /\ last_update' = unix_now
       ELSE IF unix_now - last_update > Timestep
         THEN step'.gate = "fire" /\ last_update' = unix_now
       ELSE step'.gate = "wait" /\ last_update' = last_update
    /\ step'.cyc.called <=> step'.gate = "fire"
    /\ step'.gate = "fire" =>
         /\ Len(cycles') = Len(cycles) + 1
         /\ cycles'[Len(cycles')].by = "run_history"
         /\ cycles'[Len(cycles')].ux_now = unix_now
         /\ \A j \in DOMAIN cycles :
              cycles[j].by = "run_history" => unix_now - cycles[j].ux_now >= Timestep

\* C3 (gate timing): every step of the program is a step as C3_GateStep
\* describes it: the first check only records now, an armed check triggers
\* exactly when more than Timestep has passed since last_update, and two
\* triggers are at least Timestep apart.
C3_GateTiming == [][C3_GateStep]_vars

\* the gate has triggered for the second time in a replay
C3_Witness ==
  /\ step.kind = "tick" /\ step.gate = "fire"
  /\ \E j \in DOMAIN cycles : cycles[j].by = "run_history" /\ cycles[j].ux_now < step.now

(* -------- C4 ----------------------------------------------------------- *)
\* C4: two detection cycles of live-streaming mode are never started less
\* than Timestep seconds apart (counting only the cycles that run through to
\* the tagging of the sensors).
C4_LiveCyclesApart ==
  \A a, b \in DOMAIN cycles :
    (/\ a < b
     /\ cycles[a].by = "run_stream" /\ cycles[a].outcome = "tagged"
     /\ cycles[b].by = "run_stream" /\ cycles[b].outcome = "tagged")
      => cycles[b].ux_now - cycles[a].ux_now >= Timestep

(* -------- C5 ----------------------------------------------------------- *)
\* C5: whenever the window extractor returns a tightened window, its left
\* flank is the largest of the requested left flank and the sensors' first
\* slice timestamps, its right flank is the smallest of the requested right
\* flank and the sensors' last slice timestamps, and every sensor's slice
\* starts at or before the left flank and ends at or after the right flank.
C5_Tightening ==
  ClusteringInvoked =>
    LET c == step.cyc
        In(k) == SamplesIn(c.pre[k], c.reqtl, c.ux_now)
        first(k) == c.pre[k].unixtime[SetMin(In(k))]
        last(k) == c.pre[k].unixtime[SetMax(In(k))]
        K == DOMAIN c.pre
    IN /\ c.tl = SetMax({c.reqtl} \cup {first(k) : k \in K})
       /\ c.tr = SetMin({c.ux_now} \cup {last(k) : k \in K})
       /\ \A k \in K : first(k) <= c.tl /\ last(k) >= c.tr

\* a cycle whose window was tightened on both flanks
C5_Witness ==
  /\ ClusteringInvoked
  /\ step.cyc.tl > step.cyc.reqtl
  /\ step.cyc.tr < step.cyc.ux_now

(* -------- C6 ----------------------------------------------------------- *)
\* C6: a detection cycle in which some sensor has fewer than 2 samples with
\* requested tl <= timestamp <= tr does not call DBSCAN, leaves every
\* sensor's timestamps, values and flags as they were, raises nothing, and
\* leaves the program running.
C6_ThinSliceAborts ==
  (/\ step.cyc.called
   /\ \E k \in DOMAIN step.cyc.pre :
        Cardinality(SamplesIn(step.cyc.pre[k], step.cyc.reqtl, step.cyc.ux_now)) < 2)
    => /\ ~ClusteringInvoked
       /\ temperatures = step.cyc.pre
       /\ step.cyc.raised = ""
       /\ pc # "crashed"

(* -------- C7 ----------------------------------------------------------- *)
\* C7: DBSCAN is never called on a matrix with fewer than 2 columns: a cycle
\* whose resampling axis has fewer than 2 points ends before clustering.
C7_ShortAxisAborts ==
  ClusteringInvoked => step.cyc.cols >= 2

(* -------- C8 ----------------------------------------------------------- *)
\* C8: a detection cycle whose labels are all noise raises nothing, changes
\* no sensor, and leaves the program running.
C8_AllNoiseSkipsTagging ==
  (step.cyc.called /\ step.cyc.labels # <<>> /\ ~HasCluster(step.cyc.labels))
    => /\ step.cyc.raised = ""
       /\ temperatures = step.cyc.pre
       /\ pc # "crashed"

(* -------- C9 ----------------------------------------------------------- *)
\* C9: after a live event of a device that is not in the sensor list, every
\* sensor's timestamps, values and flags are as before the event, no
\* detection cycle was run, nothing was raised, and the stream loop goes on
\* listening.
C9_UnknownSensorDropped ==
  (/\ step.kind = "event"
   /\ step.event.targetName \notin DOMAIN sensor_ids(Len(step.before)))
    => /\ temperatures = step.before
       /\ ~step.served
       /\ ~step.cyc.called
       /\ step.raised = ""
       /\ pc = "listening"
       /\ error = ""

\* an event of an unlisted device arrived when every sensor held samples
C9_Witness ==
  /\ step.kind = "event"
  /\ step.event.targetName \notin DOMAIN sensor_ids(Len(temperatures))
  /\ step.event.hasTime /\ step.event.hasValue
  /\ \A k \in DOMAIN temperatures : Len(temperatures[k].unixtime) >= 2

(* -------- C10 ---------------------------------------------------------- *)
\* C10: for every sensor the timestamp list, the value list and the flag
\* list have the same length.
C10_EqualLengths ==
  \A k \in DOMAIN temperatures :
    /\ Len(temperatures[k].unixtime) = Len(temperatures[k].values)
    /\ Len(temperatures[k].values) = Len(temperatures[k].anomaly)

(* -------- C11 ---------------------------------------------------------- *)
\* C11: after every pass of the replay loop that checked the gate at time
\* now, every historic event with timestamp <= now has been served to the
\* sensors (the events are served in the order of event_history, i of them
\* so far).
C11_DueEventsIngested ==
  (step.kind = "tick" /\ step.gate # "") =>
    \A j \in 1..Len(event_history) :
      event_history[j].updateTime <= step.now => j <= i

(* -------- C12 ---------------------------------------------------------- *)
\* C12: a detection cycle at time now goes on to the window extraction only
\* if every sensor holds a timestamp and now minus the latest of the sensors'
\* first timestamps is at least Window; otherwise it returns at once, raises
\* nothing and leaves every sensor as it was.
C12_WarmUp ==
  step.cyc.called =>
    LET c == step.cyc
        K == DOMAIN c.pre
        ready ==
          /\ \A k \in K : Len(c.pre[k].unixtime) >= 1
          /\ c.ux_now - SetMax({c.pre[k].unixtime[1] : k \in K}) >= Window
    IN IF ready
         THEN c.outcome \notin {"nodata", "warmup"}
         ELSE /\ c.outcome \in {"nodata", "warmup"}
              /\ c.labels = <<>>
              /\ c.raised = ""
              /\ temperatures = c.pre

\* a cycle was stopped by the warm-up test although every sensor held at
\* least two samples
C12_Witness ==
  /\ step.cyc.called
  /\ step.cyc.outcome = "warmup"
  /\ \A k \in DOMAIN temperatures : Len(temperatures[k].values) >= 2

(* -------- C13 ---------------------------------------------------------- *)
\* C13: the left bound a detection cycle hands to the anomaly tagger is the
\* left flank of the tightened window of that cycle.
C13_TaggerBound ==
  (step.cyc.called /\ step.cyc.outcome \in {"tagged", "tagger_error"})
    => step.cyc.bound = step.cyc.tl

(* -------- C14 ---------------------------------------------------------- *)
\* C14: after the tagger has marked a sensor anomalous with bound tl, the
\* flag of every sample of that sensor with timestamp > tl is 1, and the
\* flag of every sample with timestamp <= tl is what it was before.
C14_MarkAnomalous ==
  (/\ step.cyc.called
   /\ step.cyc.outcome \in {"tagged", "tagger_error"}
   /\ HasCluster(step.cyc.labels)) =>
    \A k \in DOMAIN temperatures :
      IsOutlier(step.cyc.labels, k) =>
        \A ix \in 1..Len(step.cyc.pre[k].unixtime) :
          IF step.cyc.pre[k].unixtime[ix] > step.cyc.bound
            THEN temperatures[k].anomaly[ix] = 1
            ELSE temperatures[k].anomaly[ix] = step.cyc.pre[k].anomaly[ix]

(* -------- C15 ---------------------------------------------------------- *)
\* C15: after n_reconnects connection failures in a row run_stream has given
\* up: it is not about to connect again.
C15_GivesUp ==
  failures >= n_reconnects => pc = "done"

(* -------- C16 ---------------------------------------------------------- *)
\* C16: while run_stream runs, the reconnect counter equals the number of
\* connection failures since the last successful connection.
C16_CounterCountsFailures ==
  pc \in {"connect", "listening"} => nth_reconnect = failures

(* -------- C17 ---------------------------------------------------------- *)
\* C17: every sensor's timestamp list is strictly increasing.
C17_StrictlyIncreasing ==
  \A k \in DOMAIN temperatures :
    \A ix \in 1..(Len(temperatures[k].unixtime) - 1) :
      temperatures[k].unixtime[ix] < temperatures[k].unixtime[ix + 1]

(* -------- C19 ---------------------------------------------------------- *)
\* C19: an event of a registered sensor that lacks the value or the
\* updateTime field is rejected: the loop goes on, no reconnect attempt is
\* counted, and no sensor's lists change.
C19_MalformedRejected ==
  (/\ step.kind = "event"
   /\ step.event.targetName \in DOMAIN sensor_ids(Len(temperatures))
   /\ ~(step.event.hasTime /\ step.event.hasValue)) =>
    /\ pc \notin {"crashed", "done"}
    /\ failures = 0
    /\ nth_reconnect = 0
    /\ temperatures = step.before

(* -------- C20 ---------------------------------------------------------- *)
\* C20: in a cycle that reaches the resampler, every point p of the resample
\* axis is tl + ResampleStep * k for the tightened tl, lies in tl <= p < tr
\* for the tightened tr, and lies between the first and the last timestamp
\* of every sensor's slice of the requested window.
C20_NoExtrapolation ==
  ClusteringInvoked =>
    LET c == step.cyc IN
    \A j \in DOMAIN c.rex :
      LET p == c.rex[j] IN
      /\ c.tl <= p /\ p < c.tr
      /\ \E m \in 0..MaxNow : p = c.tl + ResampleStep * m
      /\ \A k \in DOMAIN c.pre :
           LET x == SliceX(c.pre[k], c.reqtl, c.ux_now)
           IN x[1] <= p /\ p <= x[Len(x)]

\* a cycle resampled onto two points after a flank of the window moved
C20_Witness ==
  /\ ClusteringInvoked
  /\ Len(step.cyc.rex) >= 2
  /\ (step.cyc.tl > step.cyc.reqtl \/ step.cyc.tr < step.cyc.ux_now)

(* -------- C18 ---------------------------------------------------------- *)
\* what the DBSCAN call of the last cycle gave; the library computes it from
\* the feature matrix alone, so a run on the same matrix gives it again
LastDBSCAN ==
  IF step.cyc.outcome \in {"tagged", "tagger_error"} THEN step.cyc.labels ELSE <<>>

SkippedOutcomes == {"nodata", "warmup", "thin"}

\* C21: when a gate-triggered detection cycle is skipped (warm-up not met or
\* too little data), the scheduler keeps running with last_update at that
\* tick, and every later detection attempt lies more than Timestep after
\* the skipped one.
C21_NoCycleRetry ==
  /\ (step.kind = "tick" /\ step.gate = "fire"
        /\ step.cyc.outcome \in SkippedOutcomes) =>
       (pc = "history" /\ last_update = step.now)
  /\ \A a \in DOMAIN cycles : \A b \in DOMAIN cycles :
       (/\ a < b
        /\ cycles[a].by = "run_history"
        /\ cycles[a].outcome \in SkippedOutcomes) =>
         cycles[b].ux_now - cycles[a].ux_now > Timestep

\* the same within the replay alone
C21_ReplayOnly ==
  /\ (step.kind = "tick" /\ step.gate = "fire"
        /\ step.cyc.outcome \in SkippedOutcomes) =>
       (pc = "history" /\ last_update = step.now)
  /\ \A a \in DOMAIN cycles : \A b \in DOMAIN cycles :
       (/\ a < b
        /\ cycles[a].by = "run_history" /\ cycles[b].by = "run_history"
        /\ cycles[a].outcome \in SkippedOutcomes) =>
         cycles[b].ux_now - cycles[a].ux_now > Timestep

(* -------- C23 ---------------------------------------------------------- *)
\* sequence a is an initial part of sequence b
IsPrefix(a, b) == Len(a) <= Len(b) /\ \A j \in 1..Len(a) : b[j] = a[j]

\* the store as the ingestion of the last step left it, before any cycle
Ingested(st, temps) == IF st.cyc.called THEN st.cyc.pre ELSE temps

\* one step keeps every stored timestamp and value in place
SamplesKept ==
  \A k \in DOMAIN temperatures :
    /\ IsPrefix(temperatures[k].unixtime, temperatures'[k].unixtime)
    /\ IsPrefix(temperatures[k].values, temperatures'[k].values)
    /\ Len(temperatures[k].anomaly) <= Len(temperatures'[k].anomaly)

\* a served live event added one sample, flag 0, at the end of its sensor's
\* lists and nothing else
ServedAppendsOne ==
  (step'.kind = "event" /\ step'.served) =>
    LET e == step'.event
        s == sensor_ids(Len(temperatures))[e.targetName]
        post == Ingested(step', temperatures')
    IN /\ post[s].unixtime = Append(temperatures[s].unixtime, e.updateTime)
       /\ post[s].values = Append(temperatures[s].values, e.value)
       /\ post[s].anomaly = Append(temperatures[s].anomaly, 0)
       /\ \A k \in DOMAIN temperatures : k # s => post[k] = temperatures[k]

\* a replay tick added to every sensor as many timestamps as values as
\* flags, the flags 0, after the stored ones
TickAppends ==
  step'.kind = "tick" =>
    LET post == Ingested(step', temperatures') IN
    \A k \in DOMAIN temperatures :
      LET old == temperatures[k]
          new == post[k]
      IN /\ IsPrefix(old.unixtime, new.unixtime)
         /\ IsPrefix(old.values, new.values)
         /\ IsPrefix(old.anomaly, new.anomaly)
         /\ Len(new.values) - Len(old.values) = Len(new.unixtime) - Len(old.unixtime)
         /\ Len(new.anomaly) - Len(old.anomaly) = Len(new.unixtime) - Len(old.unixtime)
         /\ \A j \in (Len(old.anomaly) + 1)..Len(new.anomaly) : new.anomaly[j] = 0

\* C23: the ingestion of an event of a registered sensor appends one element
\* to the end of each of that sensor's three lists (flag 0) and changes
\* nothing else; no step removes or moves a stored sample.
C23_IngestionFrame == [][SamplesKept /\ ServedAppendsOne /\ TickAppends]_vars

\* a served live event reached a sensor that already held samples, in a
\* project whose other sensors hold samples too
C23_Witness ==
  /\ step.kind = "event" /\ step.served
  /\ \A k \in DOMAIN step.before : Len(step.before[k].unixtime) >= 2

(* -------- C24 ---------------------------------------------------------- *)
\* a detection cycle left the timestamps and values of every sensor as they
\* were, and changed flags only from 0 to 1
CycleKeepsSamples(c) ==
  \A k \in DOMAIN c.pre :
    /\ c.temps[k].unixtime = c.pre[k].unixtime
    /\ c.temps[k].values = c.pre[k].values
    /\ Len(c.temps[k].anomaly) = Len(c.pre[k].anomaly)
    /\ \A ix \in DOMAIN c.pre[k].anomaly :
         c.temps[k].anomaly[ix] # c.pre[k].anomaly[ix] =>
           (c.pre[k].anomaly[ix] = 0 /\ c.temps[k].anomaly[ix] = 1)

\* C24: a detection cycle changes no timestamp, no value and no list length
\* of any sensor and leaves last_update as the gate set it; the only change
\* to the store it can make is a flag going from 0 to 1.
C24_CycleFrame ==
  [][step'.cyc.called =>
       /\ CycleKeepsSamples(step'.cyc)
       /\ temperatures' = step'.cyc.temps
       /\ last_update' = IF step'.kind = "tick"
                           THEN check_timestep(last_update, unix_now).last_update
                           ELSE last_update]_vars

\* a cycle that went through window extraction, clustering and tagging
C24_Witness ==
  /\ step.cyc.called
  /\ step.cyc.outcome = "tagged"
  /\ step.cyc.cols >= 2
  /\ step.cyc.tr < step.cyc.ux_now

(* -------- C26 ---------------------------------------------------------- *)
\* C26: the list the tagger writes is the flag list ingestion extends, so
\* the tagger's write at every index it visits succeeds.
C26_TaggerWriteSucceeds ==
  (/\ step.cyc.called
   /\ step.cyc.outcome \in {"tagged", "tagger_error"}
   /\ HasCluster(step.cyc.labels)) =>
    /\ step.cyc.raised = ""
    /\ \A k \in DOMAIN step.cyc.pre :
         Visited(step.cyc.pre[k], step.cyc.bound) \subseteq
           DOMAIN step.cyc.pre[k].anomaly

(* -------- C27 ---------------------------------------------------------- *)
\* the timestamps of the historic events lo..hi that belong to sensor k, in
\* the order of the history
HistoricTimes(k, lo, hi) ==
  LET own == SelectSeq(SubSeq(event_history, lo, hi),
                       LAMBDA e : e.targetName = project_devices[k])
  IN [j \in 1..Len(own) |-> own[j].updateTime]

\* one step of the replay: the clock moves by one second per tick and the
\* loop ends one second after the last event; the events served are the
\* next ones of the sorted history, each once, none older than one served
\* before
ReplayStep ==
  pc = "history" =>
    /\ pc' = "history" => (unix_now <= unix_end /\ unix_now' = unix_now + 1)
    /\ pc' = "connect" => (unix_now = unix_end + 1 /\ unix_now' = unix_now)
    /\ i <= i' /\ i' <= n_events
    /\ \A a \in 1..i' : \A b \in (i + 1)..i' :
         a < b => event_history[a].updateTime <= event_history[b].updateTime
    /\ \A k \in DOMAIN temperatures :
         temperatures'[k].unixtime =
           temperatures[k].unixtime \o HistoricTimes(k, i + 1, i')

\* C27: the replay of a non-empty sorted history ends; its clock starts at
\* the first event's timestamp, moves one second per tick and stops after
\* the last event's timestamp, and it serves every event at most once, in
\* ascending order of timestamp.
C27_ReplayTerminates ==
  /\ (pc = "history" => unix_now = event_history[1].updateTime)
  /\ [][ReplayStep]_vars
  /\ <>(pc # "history")

\* the replay of a history with an outage ran to its end
C27_Witness ==
  /\ step.kind = "histend"
  /\ unix_now = unix_end + 1
  /\ i >= 2
  /\ \E k \in DOMAIN temperatures :
       Len(temperatures[k].unixtime) < Len(temperatures[1].unixtime)

(* -------- C28 ---------------------------------------------------------- *)
\* C28: when the replay has finished, every historic event, those with the
\* last timestamp of the history included, is in its sensor's lists.
C28_CompleteReplay ==
  step.kind = "histend" =>
    /\ i = n_events
    /\ \A k \in DOMAIN temperatures :
         temperatures[k].unixtime = HistoricTimes(k, 1, n_events)

(* -------- C22 ---------------------------------------------------------- *)
\* the r-th smallest element of the sequence s, by counting
OrderStat(s, r) ==
  CHOOSE v \in {s[j] : j \in DOMAIN s} :
    /\ Cardinality({j \in DOMAIN s : s[j] < v}) < r
    /\ r <= Cardinality({j \in DOMAIN s : s[j] <= v})

\* the two middle elements of s (the same element when Len(s) is odd)
LowerMiddle(s) == OrderStat(s, (Len(s) + 1) \div 2)
UpperMiddle(s) == OrderStat(s, (Len(s) \div 2) + 1)

RECURSIVE SumOver(_, _)
SumOver(f, S) ==
  IF S = {} THEN 0
  ELSE LET c == CHOOSE c \in S : TRUE IN f[c] + SumOver(f, S \ {c})

\* the squared Euclidean distance, times 4, between row k of x and the row
\* of column medians
MedianRowDistance4(x, k) ==
  LET col(c) == [r \in 1..Len(x) |-> x[r][c]]
      m2(c) == LowerMiddle(col(c)) + UpperMiddle(col(c))
  IN SumOver([c \in DOMAIN x[k] |-> (2 * x[k][c] - m2(c)) * (2 * x[k][c] - m2(c))],
             DOMAIN x[k])

\* threshold_modifier times the median over the sensors of that distance
ScaledMedianDistance(x) ==
  LET D == [k \in 1..Len(x) |-> MedianRowDistance4(x, k)]
  IN [a |-> LowerMiddle(D), b |-> UpperMiddle(D), times |-> threshold_modifier]

\* C22: the radius passed to DBSCAN is threshold_modifier times the median
\* over the sensors of the Euclidean distance between the sensor's row and
\* the row of column medians, and min_samples is minimum_cluster_size.
C22_ClusteringInputs ==
  calc.fn \in {"Director.__cluster", "main"} =>
    /\ calc.dbscan.eps = ScaledMedianDistance(calc.x)
    /\ calc.dbscan.min_samples = minimum_cluster_size

\* the same for the call of Director.__cluster alone
C22_DirectorOnly ==
  calc.fn = "Director.__cluster" =>
    /\ calc.dbscan.eps = ScaledMedianDistance(calc.x)
    /\ calc.dbscan.min_samples = minimum_cluster_size

(* -------- C30 ---------------------------------------------------------- *)
\* more than half of the rows of x are the same row
StrictMajorityIdentical(x) ==
  \E k \in DOMAIN x : 2 * Cardinality({j \in DOMAIN x : x[j] = x[k]}) > Len(x)

\* C30: the estimated epsilon is never negative, and it is 0, before and
\* after scaling, whenever more than half of the rows of the feature matrix
\* are identical, however far the other rows lie.
C30_DegenerateEpsilon ==
  calc.fn \in {"Director.__cluster", "main"} =>
    LET e == calc.dbscan.eps IN
    /\ e.a >= 0 /\ e.b >= 0 /\ e.times >= 0
    /\ StrictMajorityIdentical(calc.x) => (e.a = 0 /\ e.b = 0)

\* two identical rows and a third that differs from them by MaxTemp in
\* every one of two or more columns
C30_Witness ==
  /\ calc.fn = "Director.__cluster"
  /\ Len(calc.x) = 3
  /\ Len(calc.x[1]) >= 2
  /\ calc.x[1] = calc.x[2]
  /\ \A c \in DOMAIN calc.x[3] : calc.x[3][c] - calc.x[1][c] = MaxTemp
  /\ calc.dbscan.eps.a = 0 /\ calc.dbscan.eps.b = 0

(* -------- C29 ---------------------------------------------------------- *)
\* the non-negative labels that occur most often in L
TopLabels(L) ==
  LET C == {L[k] : k \in {j \in DOMAIN L : L[j] >= 0}}
  IN {c \in C : \A d \in C : Count(L, d) <= Count(L, c)}

\* C29: when two or more non-negative labels occur most often, the majority
\* label is the smallest of them and the sensors of the other such clusters
\* are marked anomalous.
C29_TieBreak ==
  (/\ calc.fn = "Director.__update_outlier_triggers"
   /\ Cardinality(TopLabels(calc.labels)) >= 2) =>
    /\ MajorityLabel(calc.labels) = SetMin(TopLabels(calc.labels))
    /\ calc.out.raised = ""
    /\ \A k \in DOMAIN calc.labels :
         (calc.labels[k] \in TopLabels(calc.labels) \ {SetMin(TopLabels(calc.labels))}) =>
           \A ix \in DOMAIN calc.temps[k].unixtime :
             calc.temps[k].unixtime[ix] > calc.tl =>
               calc.out.temps[k].anomaly[ix] = 1

(* -------- C31: the labelled range is the clustered range --------------- *)
\* a pass of the loop of src/main.py that got labels from DBSCAN
MainPassed == calc.fn = "main loop" /\ calc.labels # <<>>

\* C31: in every pass of the batch script's sliding-window loop, the column
\* range [i, j) handed to update_labels is the column range
\* [i, i + window_samples) of the resampled matrix that was clustered.
C31_SameRange == MainPassed => calc.updated = calc.clustered

(* -------- C32: the sliding-window loop terminates ---------------------- *)
\* a step that is a pass of the loop which goes on to the next one
MainIteration == calc.fn = "main loop" /\ calc'.pc = "loop" /\ calc' # calc

\* C32: for every positive --timestep and --window and every finite
\* resampled matrix the window start index i strictly increases on each
\* iteration of the loop, and the loop comes to an end.
C32_LoopTerminates ==
  /\ [][MainIteration => calc'.i > calc.i]_vars
  /\ <>(calc.fn = "main loop" /\ calc.pc # "loop")

====
